---- MODULE Spec2Model ----
(***************************************************************************)
(* Model of the execution policies of reframe/frontend/executors/          *)
(* policies.py: the serial policy (runcase runs one case to completion)    *)
(* and the asynchronous policy (runcase registers, exit() drains).         *)
(*                                                                         *)
(* RegressionTask (reframe/frontend/executors/__init__.py) is not part of  *)
(* the sources at hand: its operations (fail, skip, abort, finalize,       *)
(* cleanup, the failed/skipped/succeeded properties) follow the task       *)
(* record of the design document, sections 3 and 4.2.                      *)
(*                                                                         *)
(* The module also models the key lookup of ScopedDict                     *)
(* (reframe/utility/__init__.py): strings are sequences of characters;     *)
(* and the poll controller of policies.py on its own: durations are in     *)
(* microseconds, rounded down.                                             *)
(***************************************************************************)
EXTENDS Integers, Sequences, FiniteSets, TLC

\* ----------------------------------------------------------------- bounds
NumCases   == 3      \* number of test cases a session may submit
MaxJobs    == 1      \* partition.max_jobs of every partition
RfmMaxJobs == 1      \* systems/0/rfm_max_jobs

Cases      == 1..NumCases
Restored   == 0      \* a dependency restored from a previous session: never submitted
Partitions == {"p1", "p2"}
NoLimit    == 2 * NumCases + 2   \* a failure budget no run can reach
MaxFailuresChoices == {2, NoLimit}
MaxDepth   == 3      \* deepest nesting of the scopes of a ScopedDict
MaxPolls   == 60     \* polls of a poll controller
MaxRunning == 2      \* tasks that compile or run at a time beside a poll controller
MaxElems   == 3      \* elements an ordered set is built from

VARIABLES
    policy,                \* the execution policy of the session (input)
    deps,                  \* case.deps: case -> set of cases (input)
    check,                 \* case -> its check's attributes (input)
    max_failures,          \* configuration option max_failures
    task_index,            \* cases with a task (_task_index)
    current_tasks,         \* _current_tasks
    stage,                 \* task -> stage of the task
    ref_count,             \* task -> ref_count
    failed_stage,          \* task -> pipeline stage that raised, or "none"
    local_scheduler_tasks, \* _local_scheduler_tasks
    scheduler_tasks,       \* _scheduler_tasks: partition -> set of tasks
    retired_tasks,         \* _retired_tasks (a list)
    num_failed_tasks,      \* _num_failed_tasks
    job,                   \* task -> state of the job of its current stage
    pc,                    \* position of the driver
    todo,                  \* tasks of advance_all's snapshot not yet visited
    num_running,           \* num_running of the current drain iteration
    events,                \* task -> events emitted for it (history)
    decs,                  \* dependent -> dependency -> decrements applied (history)
    cleanups,              \* task -> number of cleanup() calls (history)
    aborted,               \* tasks abort() was called on (history)
    started,               \* tasks setup() was called on (history)
    late_calls,            \* tasks a pipeline stage was called on after their end (history)
    entered,               \* live task -> the stages it entered a queue for (history)
    scope_sep,             \* ScopedDict._scope_sep
    data,                  \* ScopedDict.data: scope -> key -> value
    key,                   \* the key of the last lookup, <<>> before the first
    ret,                   \* what the last lookup returned, or "KeyError"
    polls,                 \* scheduler -> the job lists of its poll() calls in the last step (history)
    sleep_duration,        \* _PollController._sleep_duration (0: None)
    num_polls,             \* _PollController._num_polls
    num_tasks,             \* _PollController._num_tasks
    slept,                 \* the duration of the last time.sleep() (history; 0: none yet)
    members,               \* the tasks that compile or run beside the controller
    last_members,          \* members when the controller last slept (history)
    oset,                  \* OrderedSet x: its elements in insertion order
    other,                 \* the set y, as the order its iteration yields
    operator,              \* the operator applied last, "none" before the first
    binary,                \* the elements of x <operator> y, in order
    inplace                \* the elements of x after x <operator>= y, in order

inputs == <<policy, deps, check, max_failures>>
vars == <<policy, deps, check, max_failures, task_index, current_tasks, stage, ref_count,
          failed_stage, local_scheduler_tasks, scheduler_tasks, retired_tasks,
          num_failed_tasks, job, pc, todo, num_running, events, decs, cleanups,
          aborted, started, late_calls, entered, scope_sep, data, key, ret, polls,
          sleep_duration, num_polls, num_tasks, slept, members, last_members,
          oset, other, operator, binary, inplace>>
scoped == <<scope_sep, data, key, ret>>
pollctl == <<sleep_duration, num_polls, num_tasks, slept, members, last_members>>
ordered == <<oset, other, operator, binary, inplace>>
aside == <<scoped, pollctl, ordered>>

\* ------------------------------------------------------------ state record
\* The handlers are sequences of calls; each call is an operator from state
\* record to state record, and S is the record of the current state.
\* Field raised holds the abort-class error in flight ("none" when there is none).
NoPolls == [q \in Partitions \cup {"local"} |-> <<>>]

S == [task_index |-> task_index, current_tasks |-> current_tasks, stage |-> stage,
      ref_count |-> ref_count, failed_stage |-> failed_stage,
      local_scheduler_tasks |-> local_scheduler_tasks,
      scheduler_tasks |-> scheduler_tasks, retired_tasks |-> retired_tasks,
      num_failed_tasks |-> num_failed_tasks, job |-> job, events |-> events,
      decs |-> decs, cleanups |-> cleanups, aborted |-> aborted,
      started |-> started, late_calls |-> late_calls,
      entered |-> entered, polls |-> NoPolls, raised |-> "none"]

TerminalStages == {"failed", "skipped", "retired"}

\* The job of a task is consulted only while the task is compiling or running
\* (a new stage starts a new job), so it is kept for those stages only; the
\* record of the queues a task entered is kept until the task ends.
Commit(s) ==
    /\ task_index' = s.task_index
    /\ current_tasks' = s.current_tasks
    /\ stage' = s.stage
    /\ ref_count' = s.ref_count
    /\ failed_stage' = s.failed_stage
    /\ local_scheduler_tasks' = s.local_scheduler_tasks
    /\ scheduler_tasks' = s.scheduler_tasks
    /\ retired_tasks' = s.retired_tasks
    /\ num_failed_tasks' = s.num_failed_tasks
    /\ job' = [t \in Cases |-> IF s.stage[t] \in {"compiling", "running"}
                                 THEN s.job[t] ELSE "none"]
    /\ events' = s.events
    /\ decs' = s.decs
    /\ cleanups' = s.cleanups
    /\ aborted' = s.aborted
    /\ started' = s.started
    /\ late_calls' = s.late_calls
    /\ entered' = [t \in Cases |-> IF s.stage[t] \in TerminalStages
                                     THEN {} ELSE s.entered[t]]
    /\ polls' = s.polls

Raised(s) == s.raised # "none"

\* Number of submitted dependents of case c (case.num_dependents).
NumDependents(c) == Cardinality({d \in Cases : c \in deps[d]})

\* ------------------------------------------------------------- listeners
\* on_task_failure of both policies: count the failure, raise FailureLimitError
\* when the budget is reached.
on_task_failure(s, t) ==
    LET n == s.num_failed_tasks + 1 IN
    [s EXCEPT !.num_failed_tasks = n,
              !.raised = IF n >= max_failures THEN "FailureLimitError" ELSE @]

\* The loop of on_task_success: one decrement per dependency of t in the index.
\* A loop that decrements every indexed task that has dependents.
dec_ref_counts_every(s, t) ==
    LET ds == {c \in s.task_index : s.ref_count[c] > 0} IN
    [s EXCEPT !.ref_count = [c \in DOMAIN @ |-> IF c \in ds THEN @[c] - 1 ELSE @[c]],
              !.decs[t] = [c \in DOMAIN @ |-> IF c \in ds THEN @[c] + 1 ELSE @[c]]]

dec_ref_counts(s, t) ==
    LET ds == {c \in deps[t] : c \in s.task_index} IN
    [s EXCEPT !.ref_count = [c \in DOMAIN @ |-> IF c \in ds THEN @[c] - 1 ELSE @[c]],
              !.decs[t] = [c \in DOMAIN @ |-> IF c \in ds THEN @[c] + 1 ELSE @[c]]]

\* A listener that applies the decrements of a success twice.
on_task_success_twice(s, t) == dec_ref_counts(dec_ref_counts(s, t), t)

\* on_task_success of the asynchronous policy.
on_task_success(s, t) == dec_ref_counts(s, t)

\* ------------------------------------------------------------ task record
\* What is kept of the name of a failed stage: the policies tell "cleanup"
\* from the rest only; "dependencies" stands for the TaskDependencyError
\* raised before any stage, "pipeline" for a stage from setup to performance.
stage_class(stg) ==
    IF stg \in {"dependencies", "cleanup"} THEN stg ELSE "pipeline"

\* RegressionTask.fail: record the failed stage, become failed, notify.
task_fail(s, t, stg) ==
    on_task_failure([s EXCEPT !.stage[t] = "failed",
                              !.failed_stage[t] = stage_class(stg),
                              !.events[t].failure = @ + 1], t)

\* RegressionTask.skip: become skipped, notify on_task_skip (which only prints).
task_skip(s, t) ==
    [s EXCEPT !.stage[t] = "skipped", !.events[t].skip = @ + 1]

\* RegressionTask.abort: straight to failed with the cause attached (a task
\* in a terminal stage stays there); the failure listeners are not notified.
task_abort(s, t) ==
    [s EXCEPT !.stage[t] = IF @ \in {"failed", "skipped", "retired"} THEN @
                           ELSE "failed",
              !.aborted = @ \cup {t}]

\* RegressionTask.cleanup: ok tells whether the check's cleanup succeeds; a
\* failure is reported with failed_stage = "cleanup", the task stays retired.
task_cleanup(s, t, ok) ==
    LET s1 == [s EXCEPT !.cleanups[t] = @ + 1] IN
    IF ok THEN s1
    ELSE on_task_failure([s1 EXCEPT !.failed_stage[t] = "cleanup",
                                    !.events[t].failure = @ + 1], t)

\* The outcome properties of a task.
task_failed(s, c) == s.stage[c] = "failed"
task_skipped(s, c) == s.stage[c] = "skipped"
task_succeeded(s, c) == s.stage[c] = "retired"

\* ------------------------------------------------------- dependency oracle
IndexedDeps(s, t) == {c \in deps[t] : c \in s.task_index}

deps_failed(s, t) == \E c \in IndexedDeps(s, t) : task_failed(s, c)

\* An oracle that takes a dependency without a task for one that has not
\* succeeded.
deps_succeeded_indexed_only(s, t) ==
    \A c \in deps[t] : c \in s.task_index /\ task_succeeded(s, c)

\* An oracle for which the dependencies have always succeeded.
deps_succeeded_any(s, t) == TRUE

deps_succeeded(s, t) == \A c \in IndexedDeps(s, t) : task_succeeded(s, c)

\* An oracle that looks for a failed dependency where it should look for a
\* skipped one.
deps_skipped_checks_failed(s, t) == \E c \in IndexedDeps(s, t) : task_failed(s, c)

deps_skipped(s, t) == \E c \in IndexedDeps(s, t) : task_skipped(s, c)

\* ---------------------------------------------------------------- cleanup
\* A sweep that calls cleanup whatever the reference count.
cleanable_any(s, t) == TRUE

\* A sweep whose test no task passes.
cleanable_negative(s, t) == s.ref_count[t] < 0

\* The test of the sweep: cleanup is called on a task without references only.
cleanable(s, t) == s.ref_count[t] = 0

RECURSIVE cleanup_loop(_, _, _, _)
\* The for loop of _cleanup_all over the list tasks, from position i on; F is
\* the set of tasks whose cleanup fails.  An abort-class error ends the loop.
cleanup_loop(s, tasks, i, F) ==
    IF i > Len(tasks) THEN s
    ELSE LET t == tasks[i] IN
         IF cleanable(s, t)
         THEN LET s1 == task_cleanup(s, t, t \notin F) IN
              IF Raised(s1) THEN s1 ELSE cleanup_loop(s1, tasks, i + 1, F)
         ELSE cleanup_loop(s, tasks, i + 1, F)

\* A sweep that never removes a task from the list.
keep_retired_all(s, t) == TRUE

\* A sweep that keeps the tasks it has cleaned and drops the others.
keep_retired_cleaned(s, t) == s.ref_count[t] = 0

\* The tasks _cleanup_all keeps in the list.
keep_retired(s, t) == s.ref_count[t] # 0

_cleanup_all(s, F) ==
    LET s1 == cleanup_loop(s, s.retired_tasks, 1, F) IN
    IF Raised(s1) THEN s1
    ELSE [s1 EXCEPT !.retired_tasks = SelectSeq(@, LAMBDA t : keep_retired(s1, t))]

\* RegressionTask.finalize: the pipeline is over, the task is a success and
\* on_task_success is emitted (the listener of the policy follows it).
task_finalize(s, t) ==
    [s EXCEPT !.stage[t] = "retired", !.events[t].success = @ + 1]

\* A pipeline stage called through the task: out is what the check's stage
\* does ("ok", "fail": a stage failure, "skip": it raises SkipTestError).
task_call(s, t, stg, out) ==
    LET s0 == [s EXCEPT !.started = IF stg = "setup" THEN @ \cup {t} ELSE @,
                        !.late_calls = IF s.stage[t] \in TerminalStages
                                       THEN @ \cup {t} ELSE @]
    IN
    CASE out = "ok"   -> s0
      [] out = "skip" -> task_skip(s0, t)
      [] out = "fail" -> task_fail(s0, t, stg)

remove_current(s, t) == [s EXCEPT !.current_tasks = @ \ {t}]

\* --------------------------------------------------- asynchronous policy
\* An admission test that lets every task in.
admits_any(n, cap) == TRUE

\* The admission test of a queue of n tasks with capacity cap.
admits(n, cap) == n <= cap

\* The queue a stage of task t is placed in and removed from: "local" or the
\* name of the task's partition.
compile_queue(t) ==
    IF check[t].local \/ check[t].build_locally THEN "local" ELSE check[t].partition

\* A run queue chosen as the compile queue is.
run_queue_as_compile(t) ==
    IF check[t].local \/ check[t].build_locally THEN "local" ELSE check[t].partition

run_queue(t) ==
    IF check[t].local THEN "local" ELSE check[t].partition

queue_len(s, q) ==
    IF q = "local" THEN Cardinality(s.local_scheduler_tasks)
    ELSE Cardinality(s.scheduler_tasks[q])

queue_cap(q) == IF q = "local" THEN RfmMaxJobs ELSE MaxJobs

\* An addition that also puts the task in the local queue.
queue_add_local_too(s, q, t) ==
    IF q = "local" THEN [s EXCEPT !.local_scheduler_tasks = @ \cup {t}]
    ELSE [s EXCEPT !.scheduler_tasks[q] = @ \cup {t},
                   !.local_scheduler_tasks = @ \cup {t}]

queue_add(s, q, t) ==
    IF q = "local" THEN [s EXCEPT !.local_scheduler_tasks = @ \cup {t}]
    ELSE [s EXCEPT !.scheduler_tasks[q] = @ \cup {t}]

\* A removal that leaves the queue as it is.
queue_remove_never(s, q, t) == s

queue_remove(s, q, t) ==
    IF q = "local" THEN [s EXCEPT !.local_scheduler_tasks = @ \ {t}]
    ELSE [s EXCEPT !.scheduler_tasks[q] = @ \ {t}]

\* A runcase that sets the task up at once.
async_runcase_eager(s, c) ==
    task_call([s EXCEPT !.task_index = @ \cup {c},
                        !.stage[c] = "wait",
                        !.ref_count[c] = NumDependents(c),
                        !.current_tasks = @ \cup {c}], c, "setup", "ok")

\* runcase of the asynchronous policy, for case c.
async_runcase(s, c) ==
    [s EXCEPT !.task_index = @ \cup {c},
              !.stage[c] = "wait",
              !.ref_count[c] = NumDependents(c),
              !.current_tasks = @ \cup {c}]

\* A dependent of a failed task that leaves the current set without fail().
wait_deps_failed_silent(s, t) ==
    remove_current([s EXCEPT !.stage[t] = "failed"], t)

\* The branch of advance_wait for a task with a failed dependency.
wait_deps_failed(s, t) ==
    LET s1 == task_fail(s, t, "dependencies") IN
    IF Raised(s1) THEN s1 ELSE remove_current(s1, t)

\* A setup after which every task is sent to compile.
after_setup_compile(t) == "ready_to_compile"

\* The stage that follows setup.
after_setup(t) ==
    IF check[t].kind = "run_only" THEN "ready_to_run" ELSE "ready_to_compile"

\* out: what setup does when it is called.
advance_wait(s, t, out) ==
    IF deps_skipped(s, t) THEN remove_current(task_skip(s, t), t)
    ELSE IF deps_succeeded(s, t) THEN
        LET s1 == task_call(s, t, "setup", out) IN
        IF Raised(s1) THEN s1
        ELSE IF out # "ok" THEN remove_current(s1, t)
        ELSE [s1 EXCEPT !.stage[t] = after_setup(t)]
    ELSE IF deps_failed(s, t) THEN wait_deps_failed(s, t)
    ELSE s

\* out: what compile does when it is called.
advance_ready_to_compile(s, t, out) ==
    LET q == compile_queue(t) IN
    IF admits(queue_len(s, q), queue_cap(q)) THEN
        LET s1 == task_call(s, t, "compile", out) IN
        IF Raised(s1) THEN s1
        ELSE IF out # "ok" THEN remove_current(s1, t)
        ELSE queue_add([s1 EXCEPT !.stage[t] = "compiling", !.job[t] = "pending",
                                  !.entered[t] = @ \cup {"compile"}], q, t)
    ELSE s

\* A build after which the task is sent back to compile.
after_compile_again(t) == "ready_to_compile"

\* The stage that follows a finished build.
after_compile(t) ==
    IF check[t].kind = "compile_only" THEN "completed" ELSE "ready_to_run"

\* out: what compile_complete does: "ok" (it answers whether the build job
\* has finished) or a failure.
advance_compiling(s, t, out) ==
    LET s1 == task_call(s, t, "compile_complete", out) IN
    IF Raised(s1) THEN s1
    ELSE IF out # "ok" THEN remove_current(s1, t)
    ELSE IF s.job[t] = "finished" THEN
        [queue_remove(s1, compile_queue(t), t) EXCEPT !.stage[t] = after_compile(t)]
    ELSE s1

advance_ready_to_run(s, t, out) ==
    LET q == run_queue(t) IN
    IF admits(queue_len(s, q), queue_cap(q)) THEN
        LET s1 == task_call(s, t, "run", out) IN
        IF Raised(s1) THEN s1
        ELSE IF out # "ok" THEN remove_current(s1, t)
        ELSE queue_add([s1 EXCEPT !.stage[t] = "running", !.job[t] = "pending",
                                  !.entered[t] = @ \cup {"run"}], q, t)
    ELSE s

\* A run after which the task is sent back to run.
after_run_again(t) == "ready_to_run"

\* The stage that follows a finished run.
after_run(t) == "completed"

advance_running(s, t, out) ==
    LET s1 == task_call(s, t, "run_complete", out) IN
    IF Raised(s1) THEN s1
    ELSE IF out # "ok" THEN remove_current(s1, t)
    ELSE IF s.job[t] = "finished" THEN
        [queue_remove(s1, run_queue(t), t) EXCEPT !.stage[t] = after_run(t)]
    ELSE s1

\* What "finally: return 1" does to an error in flight: the return discards it.
finally_return(s) == [s EXCEPT !.raised = "none"]

\* outs: what sanity and performance do, <<sanity, performance>>.
advance_completed(s, t, outs) ==
    LET s1 == task_call(s, t, "sanity", outs[1]) IN
    IF Raised(s1) THEN finally_return(s1)
    ELSE IF outs[1] # "ok" THEN remove_current(s1, t)
    ELSE LET s2 == task_call(s1, t, "performance", outs[2]) IN
         IF Raised(s2) THEN finally_return(s2)
         ELSE IF outs[2] # "ok" THEN remove_current(s2, t)
         ELSE LET s3 == on_task_success(task_finalize(s2, t), t) IN
              remove_current([s3 EXCEPT !.retired_tasks = Append(@, t)], t)

RECURSIVE abort_each(_, _)
abort_each(s, ts) ==
    IF ts = {} THEN s
    ELSE LET t == CHOOSE x \in ts : TRUE IN abort_each(task_abort(s, t), ts \ {t})

RECURSIVE fail_each(_, _)
fail_each(s, ts) ==
    IF ts = {} THEN s
    ELSE LET t == CHOOSE x \in ts : TRUE IN
         fail_each(task_fail(s, t, stage_class("abort")), ts \ {t})

\* A fan-out that fails the current tasks instead of aborting them.
_failall_counting(s) == fail_each(s, s.current_tasks)

\* _failall: abort every current task.
_failall(s) == abort_each(s, s.current_tasks)

\* self._partitions: the partitions of the submitted cases.
_partitions(s) == {check[c].partition : c \in s.task_index}

\* The tasks of a queue.
queue_tasks(s, q) ==
    IF q = "local" THEN s.local_scheduler_tasks ELSE s.scheduler_tasks[q]

\* A job list with a job for every task of the queue, whatever its stage.
poll_jobs_all(s, q) ==
    {<<t, IF s.stage[t] = "compiling" THEN "build_job" ELSE "job">> :
        t \in queue_tasks(s, q)}

\* The job list of one scheduler: the build job of each compiling task of its
\* queue and the job of each running one.
poll_jobs(s, q) ==
    {<<t, "build_job">> : t \in {u \in queue_tasks(s, q) : s.stage[u] = "compiling"}}
        \cup {<<t, "job">> : t \in {u \in queue_tasks(s, q) : s.stage[u] = "running"}}

\* The tasks with a job in the list of some scheduler.
polled(s) == {p[1] : p \in UNION {poll_jobs(s, q) : q \in Partitions \cup {"local"}}}

\* _poll_tasks: the scheduler of every partition and the local scheduler poll
\* their job list once; D: the polled jobs this poll finds finished.
_poll_tasks(s, D) ==
    [s EXCEPT !.job = [t \in DOMAIN @ |->
                          IF t \in polled(s) \cap D THEN "finished" ELSE @[t]],
              !.polls = [q \in DOMAIN @ |->
                            IF q \in _partitions(s) \cup {"local"}
                            THEN <<poll_jobs(s, q)>> ELSE <<>>]]

\* ------------------------------------------------------------------ inputs
\* Dependencies point to cases submitted earlier (the cases are submitted in
\* dependency order); with restored set, every case also depends on the
\* restored case, which is never submitted.
DepGraphs == {g \in [Cases -> SUBSET (Cases \cup {Restored})] :
                 /\ \A c \in Cases : \A d \in g[c] : d < c
                 /\ \A c \in Cases : Restored \in g[c] <=> Restored \in g[1]}

NoDeps == [c \in Cases |-> {}]

Remote(p) == [local |-> FALSE, build_locally |-> FALSE, kind |-> "regular",
              partition |-> p]

\* Where the stages of a check run: on a partition, locally, or built locally.
Placements == <<Remote("p1"), Remote("p2"),
                [Remote("p1") EXCEPT !.local = TRUE],
                [Remote("p1") EXCEPT !.build_locally = TRUE]>>

\* Which stages a check has.
KindsOf == <<Remote("p1"), [Remote("p1") EXCEPT !.kind = "run_only"],
             [Remote("p1") EXCEPT !.kind = "compile_only"]>>

\* The assignments of the checks of a tuple to the cases, one per multiset
\* (without dependencies the cases are interchangeable).
Assignments(profiles) ==
    {[c \in Cases |-> profiles[f[c]]] :
        f \in {g \in [Cases -> 1..Len(profiles)] :
                 \A c \in Cases : c > 1 => g[c - 1] <= g[c]}}

NoEvents == [success |-> 0, failure |-> 0, skip |-> 0]

\* No ordered set is at hand.
NoOrderedSet ==
    /\ oset = <<>>
    /\ other = <<>>
    /\ operator = "none"
    /\ binary = <<>>
    /\ inplace = <<>>

\* _PollController.__init__, beside no task.
NoController ==
    /\ sleep_duration = 0
    /\ num_polls = 0
    /\ num_tasks = 0
    /\ slept = 0
    /\ members = {}
    /\ last_members = {}

\* No dictionary is in use.
NoScopedDict ==
    /\ scope_sep = ":"
    /\ data = <<>>
    /\ key = <<>>
    /\ ret = "none"

InitPolicy ==
    /\ task_index = {}
    /\ current_tasks = {}
    /\ stage = [c \in Cases |-> "none"]
    /\ ref_count = [c \in Cases |-> 0]
    /\ failed_stage = [c \in Cases |-> "none"]
    /\ local_scheduler_tasks = {}
    /\ scheduler_tasks = [p \in Partitions |-> {}]
    /\ retired_tasks = <<>>
    /\ num_failed_tasks = 0
    /\ job = [c \in Cases |-> "none"]
    /\ todo = {}
    /\ num_running = 0
    /\ events = [c \in Cases |-> NoEvents]
    /\ decs = [c \in Cases |-> [d \in Cases |-> 0]]
    /\ cleanups = [c \in Cases |-> 0]
    /\ aborted = {}
    /\ started = {}
    /\ late_calls = {}
    /\ entered = [c \in Cases |-> {}]
    /\ polls = NoPolls

\* The sessions over checks of one partition, with every dependency graph.
SerialInputs ==
    /\ deps \in DepGraphs
    /\ check = [c \in Cases |-> Remote("p1")]
    /\ max_failures \in MaxFailuresChoices

\* The sessions: every dependency graph over checks of one partition, and
\* independent cases over every placement and every kind of check.
InitInputs ==
    \/ SerialInputs
    \/ /\ deps = NoDeps
       /\ check \in Assignments(Placements) \cup Assignments(KindsOf)
       /\ max_failures = NoLimit

Init ==
    /\ \/ policy = "async" /\ InitInputs
       \/ policy = "serial" /\ SerialInputs
    /\ pc = "idle"
    /\ InitPolicy
    /\ NoScopedDict
    /\ NoController
    /\ NoOrderedSet

\* ---------------------------------------------- asynchronous policy: steps
Outs == {"ok", "fail"}

\* What an abort-class error leaving the loop body of exit() does.
Abort(s) ==
    /\ Commit(_failall(s))
    /\ pc' = "aborted"
    /\ todo' = {}

\* One call of an advance function by advance_all, with result state s1.
Advanced(t, s1) ==
    IF Raised(s1) THEN Abort(s1)
    ELSE /\ Commit(s1)
         /\ pc' = "advance"
         /\ todo' = todo \ {t}

\* submit(case): the cases arrive in dependency order.
Runcase(c) ==
    /\ policy = "async"
    /\ pc = "idle"
    /\ c \notin task_index
    /\ \A d \in Cases : d < c => d \in task_index
    /\ Commit(async_runcase(S, c))
    /\ UNCHANGED <<inputs, aside, pc, todo, num_running>>

\* exit() is called once every case is submitted: the first loop test.
Exit ==
    /\ policy = "async"
    /\ pc = "idle"
    /\ task_index = Cases
    /\ pc' = IF current_tasks = {} THEN "returned" ELSE "poll"
    /\ UNCHANGED <<inputs, aside, task_index, current_tasks, stage, ref_count, failed_stage,
                   local_scheduler_tasks, scheduler_tasks, retired_tasks,
                   num_failed_tasks, job, todo, num_running, events, decs, cleanups,
                   aborted, started, late_calls, entered>>
    /\ polls' = NoPolls

\* The head of an iteration: _poll_tasks, num_running, the snapshot list(tasks).
PollFinding(D) ==
    /\ pc = "poll"
    /\ Commit(_poll_tasks(S, D))
    /\ num_running' = Cardinality({t \in current_tasks :
                                      stage[t] \in {"running", "compiling"}})
    /\ todo' = current_tasks
    /\ pc' = "advance"
    /\ UNCHANGED <<inputs, aside>>

Poll == \E D \in SUBSET polled(S) : PollFinding(D)

AdvanceWait(t) ==
    /\ pc = "advance" /\ t \in todo /\ stage[t] = "wait"
    /\ \E out \in {"ok", "fail", "skip"} : Advanced(t, advance_wait(S, t, out))
    /\ UNCHANGED <<inputs, aside, num_running>>

AdvanceReadyToCompile(t) ==
    /\ pc = "advance" /\ t \in todo /\ stage[t] = "ready_to_compile"
    /\ \E out \in Outs : Advanced(t, advance_ready_to_compile(S, t, out))
    /\ UNCHANGED <<inputs, aside, num_running>>

AdvanceCompiling(t) ==
    /\ pc = "advance" /\ t \in todo /\ stage[t] = "compiling"
    /\ \E out \in Outs : Advanced(t, advance_compiling(S, t, out))
    /\ UNCHANGED <<inputs, aside, num_running>>

AdvanceReadyToRun(t) ==
    /\ pc = "advance" /\ t \in todo /\ stage[t] = "ready_to_run"
    /\ \E out \in Outs : Advanced(t, advance_ready_to_run(S, t, out))
    /\ UNCHANGED <<inputs, aside, num_running>>

AdvanceRunning(t) ==
    /\ pc = "advance" /\ t \in todo /\ stage[t] = "running"
    /\ \E out \in Outs : Advanced(t, advance_running(S, t, out))
    /\ UNCHANGED <<inputs, aside, num_running>>

AdvanceCompleted(t) ==
    /\ pc = "advance" /\ t \in todo /\ stage[t] = "completed"
    /\ \E outs \in Outs \X Outs : Advanced(t, advance_completed(S, t, outs))
    /\ UNCHANGED <<inputs, aside, num_running>>

\* getattr(self, f'advance_{t.policy_stage}') finds no method for the stage:
\* the AttributeError is no abort-class error and ends exit().
AdvanceNoHandler(t) ==
    /\ pc = "advance" /\ t \in todo
    /\ stage[t] \notin {"wait", "ready_to_compile", "compiling", "ready_to_run",
                        "running", "completed"}
    /\ pc' = "crashed"
    /\ todo' = {}
    /\ UNCHANGED <<inputs, aside, task_index, current_tasks, stage, ref_count, failed_stage,
                   local_scheduler_tasks, scheduler_tasks, retired_tasks,
                   num_failed_tasks, job, num_running, events, decs, cleanups, aborted,
                   started, late_calls, entered>>
    /\ polls' = NoPolls

\* After advance_all: the retirement sweep; F: the tasks whose cleanup fails.
Cleanup ==
    /\ pc = "advance" /\ todo = {}
    /\ \E F \in SUBSET {t \in Cases : \E i \in 1..Len(retired_tasks) :
                                          retired_tasks[i] = t /\ ref_count[t] = 0} :
          LET s1 == _cleanup_all(S, F) IN
          IF Raised(s1) THEN Abort(s1)
          ELSE /\ Commit(s1)
               /\ pc' = "snooze"
               /\ todo' = todo
    /\ UNCHANGED <<inputs, aside, num_running>>

\* The end of an iteration: the snooze when tasks were running, and the loop test.
Snooze ==
    /\ pc = "snooze"
    /\ pc' = IF current_tasks = {} THEN "returned" ELSE "poll"
    /\ UNCHANGED <<inputs, aside, task_index, current_tasks, stage, ref_count, failed_stage,
                   local_scheduler_tasks, scheduler_tasks, retired_tasks,
                   num_failed_tasks, job, todo, num_running, events, decs, cleanups,
                   aborted, started, late_calls, entered>>
    /\ polls' = NoPolls


\* ----------------------------------------------------------- serial policy
\* on_task_success of the serial policy: the decrements, then the sweep.
serial_on_task_success(s, t, F) == _cleanup_all(dec_ref_counts(s, t), F)

\* Dependency checks that look for a skipped dependency first.
serial_deps_verdict_skip_first(s, c) ==
    IF deps_skipped(s, c) THEN "skipped"
    ELSE IF deps_failed(s, c) THEN "failed"
    ELSE "run"

\* The dependency checks at the head of runcase: "failed", "skipped" or "run".
serial_deps_verdict(s, c) ==
    IF deps_failed(s, c) THEN "failed"
    ELSE IF deps_skipped(s, c) THEN "skipped"
    ELSE "run"

\* A runcase that only registers the case and returns.
serial_runcase_lazy(s, c, out, F) ==
    [s EXCEPT !.task_index = @ \cup {c},
              !.stage[c] = "wait",
              !.ref_count[c] = NumDependents(c)]

\* runcase of the serial policy for case c.  out: what the pipeline of the
\* case does ("ok", "skip": setup raises SkipTestError, "fail": one of its
\* stages fails); F: the tasks whose cleanup fails.
serial_runcase(s, c, out, F) ==
    LET s0 == [s EXCEPT !.task_index = @ \cup {c},
                        !.stage[c] = "wait",
                        !.ref_count[c] = NumDependents(c)]
        verdict == serial_deps_verdict(s0, c)
    IN
    IF verdict = "failed" THEN task_fail(s0, c, "dependencies")
    ELSE IF verdict = "skipped" THEN task_skip(s0, c)
    ELSE IF out # "ok" THEN task_call(s0, c, "setup", out)
    ELSE
        LET s1 == [s0 EXCEPT !.retired_tasks = Append(@, c),
                             !.started = @ \cup {c}]
            s2 == serial_on_task_success(task_finalize(s1, c), c, F)
        IN IF Raised(s2) THEN task_abort(s2, c) ELSE s2

\* The tasks of the retired list the next sweep calls cleanup on, at most.
Sweepable(extra) ==
    {t \in Cases : \/ t \in extra
                   \/ \E i \in 1..Len(retired_tasks) : retired_tasks[i] = t}

SerialRuncase(c) ==
    /\ policy = "serial"
    /\ pc = "idle"
    /\ c \notin task_index
    /\ \A d \in Cases : d < c => d \in task_index
    /\ \E out \in {"ok", "skip", "fail"}, F \in SUBSET Sweepable({c}) :
          LET s1 == serial_runcase(S, c, out, F) IN
          /\ Commit(s1)
          /\ pc' = IF Raised(s1) THEN "aborted" ELSE "idle"
    /\ UNCHANGED <<inputs, aside, todo, num_running>>

\* exit() of the serial policy, called once every case has been run.
SerialExit ==
    /\ policy = "serial"
    /\ pc = "idle"
    /\ task_index = Cases
    /\ \E F \in SUBSET Sweepable({}) :
          LET s1 == _cleanup_all(S, F) IN
          /\ Commit(s1)
          /\ pc' = IF Raised(s1) THEN "aborted" ELSE "returned"
    /\ UNCHANGED <<inputs, aside, todo, num_running>>

SerialInit ==
    /\ policy = "serial"
    /\ SerialInputs
    /\ pc = "idle"
    /\ InitPolicy
    /\ NoScopedDict
    /\ NoController
    /\ NoOrderedSet

SerialNext ==
    \/ \E c \in Cases : SerialRuncase(c)
    \/ SerialExit

SerialSpec == SerialInit /\ [][SerialNext]_vars

\* exit() of the serial policy called once more by a driver that makes its
\* final pass after a runcase or a pass was ended by an abort-class error.
SerialExitAfterAbort ==
    /\ policy = "serial"
    /\ pc = "aborted"
    /\ \E F \in SUBSET Sweepable({}) : Commit(_cleanup_all(S, F))
    /\ pc' = "exited"
    /\ UNCHANGED <<inputs, aside, todo, num_running>>

FinalPassNext ==
    \/ SerialNext
    \/ SerialExitAfterAbort

\* Sessions of the serial policy whose driver always makes the final pass.
FinalPassSpec == SerialInit /\ [][FinalPassNext]_vars

\* ------------------------------------------------------------ ScopedDict
global_scope == <<"*">>          \* the default global_scope of __init__
Separators   == {":", "/"}       \* the scope_sep values a dictionary is built with
ScopeNames   == <<"a", "b", "c", "d", "e">>
KeyNames     == {<<"k">>, <<"j">>}

RECURSIVE ScopeName(_, _)
\* The scope nested n deep, spelled with separator x: a, a:b, a:b:c, ...;
\* depth 0 is the global scope.
ScopeName(n, x) ==
    IF n = 0 THEN global_scope
    ELSE IF n = 1 THEN <<ScopeNames[1]>>
    ELSE ScopeName(n - 1, x) \o <<x, ScopeNames[n]>>

\* The value a key has in the scope nested n deep.
ValueAt(n) == <<"v0", "v1", "v2", "v3", "v4", "v5">>[n + 1]

\* The two-level mapping that defines the (depth, key) pairs of D: the value
\* of a key tells the scope that holds it.
MappingOf(D, x) ==
    [s \in {ScopeName(p[1], x) : p \in D} |->
        LET n == CHOOSE m \in 0..MaxDepth : ScopeName(m, x) = s IN
        [k \in {p[2] : p \in {q \in D : q[1] = n}} |-> ValueAt(n)]]

Mappings(x) == {MappingOf(D, x) : D \in SUBSET ((0..MaxDepth) \X KeyNames)}

\* The keys looked up: a key name alone, after the separator, and within
\* each scope.
LookupKeys(x) ==
    KeyNames \cup {<<x>> \o k : k \in KeyNames}
             \cup {ScopeName(n, x) \o <<x>> \o k : n \in 0..MaxDepth, k \in KeyNames}

\* str.rsplit(sep, maxsplit=1) for a separator of one character.
rsplit(str, sep) ==
    LET I == {i \in 1..Len(str) : str[i] = sep} IN
    IF I = {} THEN <<str>>
    ELSE LET i == CHOOSE j \in I : \A h \in I : h <= j IN
         <<SubSeq(str, 1, i - 1), SubSeq(str, i + 1, Len(str))>>

_keyinfo(k) ==
    LET key_parts == rsplit(k, scope_sep) IN
    IF Len(key_parts) = 2 THEN <<key_parts[1], key_parts[2]>>
    ELSE <<global_scope, key_parts[1]>>

_parent_scope(scope) ==
    LET parts == rsplit(scope, ":")
        scope_parts == SubSeq(parts, 1, Len(parts) - 1)
    IN IF scope_parts # <<>> THEN scope_parts[1] ELSE global_scope

\* scope in self.data and lookup_key in self.data[scope]
Defines(scope, lookup_key) ==
    scope \in DOMAIN data /\ lookup_key \in DOMAIN data[scope]

RECURSIVE lookup_from(_, _)
\* The loop of _lookup from scope on, and its last chance in the global scope.
lookup_from(scope, lookup_key) ==
    IF scope # global_scope
    THEN IF Defines(scope, lookup_key) THEN data[scope][lookup_key]
         ELSE lookup_from(_parent_scope(scope), lookup_key)
    ELSE IF Defines(scope, lookup_key) THEN data[scope][lookup_key]
         ELSE "KeyError"

_lookup(k) == LET info == _keyinfo(k) IN lookup_from(info[1], info[2])

\* A dictionary built from a two-level mapping with one of the separators.
ScopedInit ==
    /\ scope_sep \in Separators
    /\ data \in Mappings(scope_sep)
    /\ key = <<>>
    /\ ret = "none"
    /\ policy = "async"
    /\ deps = NoDeps
    /\ check = [c \in Cases |-> Remote("p1")]
    /\ max_failures = NoLimit
    /\ pc = "idle"
    /\ InitPolicy
    /\ NoController
    /\ NoOrderedSet

\* d[k]
GetItem(k) ==
    /\ key' = k
    /\ ret' = _lookup(k)
    /\ UNCHANGED <<scope_sep, data, pollctl, ordered>>
    /\ UNCHANGED <<inputs, task_index, current_tasks, stage, ref_count, failed_stage,
                   local_scheduler_tasks, scheduler_tasks, retired_tasks,
                   num_failed_tasks, job, pc, todo, num_running, events, decs, cleanups,
                   aborted, started, late_calls, entered>>
    /\ polls' = NoPolls

ScopedNext == \E k \in LookupKeys(scope_sep) : GetItem(k)

\* Lookups in a scoped dictionary.
ScopedSpec == ScopedInit /\ [][ScopedNext]_vars

\* ------------------------------------------------------- poll controller
SLEEP_MIN == 100000        \* 0.1 s
SLEEP_MAX == 10000000      \* 10 s
NoDuration == 0            \* None

\* The policy variables, which the controller and the dictionaries leave alone.
session == <<inputs, task_index, current_tasks, stage, ref_count, failed_stage,
             local_scheduler_tasks, scheduler_tasks, retired_tasks,
             num_failed_tasks, job, pc, todo, num_running, events, decs, cleanups,
             aborted, started, late_calls, entered, polls>>

\* A policy that has run nothing.
IdleSession ==
    /\ policy = "async"
    /\ deps = NoDeps
    /\ check = [c \in Cases |-> Remote("p1")]
    /\ max_failures = NoLimit
    /\ pc = "idle"
    /\ InitPolicy

\* The controller as a record.
Ctl == [sleep_duration |-> sleep_duration, num_polls |-> num_polls,
        num_tasks |-> num_tasks, slept |-> slept]

\* A growth without the cap.
grow_uncapped(d) == (d * 11) \div 10

\* min(self._sleep_duration*self.SLEEP_INC_RATE, self.SLEEP_MAX)
grow(d) == IF (d * 11) \div 10 < SLEEP_MAX THEN (d * 11) \div 10 ELSE SLEEP_MAX

running_tasks(c, n) ==
    LET c1 == IF c.sleep_duration = NoDuration
              THEN [c EXCEPT !.sleep_duration = SLEEP_MIN] ELSE c
        c2 == IF c1.num_polls = 0 THEN c1
              ELSE IF c1.num_tasks # n THEN [c1 EXCEPT !.sleep_duration = SLEEP_MIN]
              ELSE [c1 EXCEPT !.sleep_duration = grow(@)]
    IN [c2 EXCEPT !.num_tasks = n]

\* snooze: count the poll and sleep for the current duration.
snooze(c) == [c EXCEPT !.num_polls = @ + 1, !.slept = c.sleep_duration]

CommitCtl(c) ==
    /\ sleep_duration' = c.sleep_duration
    /\ num_polls' = c.num_polls
    /\ num_tasks' = c.num_tasks
    /\ slept' = c.slept

\* self._pollctl.running_tasks(n).snooze()
RunningTasksSnooze(n) ==
    /\ num_polls < MaxPolls
    /\ CommitCtl(snooze(running_tasks(Ctl, n)))
    /\ UNCHANGED <<members, last_members, session, scoped, ordered>>

CtlInit == IdleSession /\ NoScopedDict /\ NoController /\ NoOrderedSet

CtlNext == \E n \in 0..MaxRunning : RunningTasksSnooze(n)

\* Every sequence of running_tasks(n).snooze() calls on one controller.
CtlSpec == CtlInit /\ [][CtlNext]_vars

\* The tasks that may compile or run beside the controller of a policy.
PollTasks == 1..(MaxRunning + 1)

\* One iteration of the loop of exit(): the count of the compiling and
\* running tasks is taken after the poll, advance_all then changes which
\* tasks compile or run (to M), and the controller is called with the count
\* when it is not zero.
DrainIteration(M) ==
    /\ policy = "async"
    /\ num_polls < MaxPolls
    /\ members' = M
    /\ LET n == Cardinality(members) IN
       IF n # 0
       THEN CommitCtl(snooze(running_tasks(Ctl, n))) /\ last_members' = members
       ELSE UNCHANGED <<sleep_duration, num_polls, num_tasks, slept, last_members>>
    /\ UNCHANGED <<session, scoped, ordered>>

\* The serial runcase starts the job of the next case.
SerialRun(c) ==
    /\ policy = "serial"
    /\ members = {}
    /\ c \in PollTasks /\ \A d \in last_members : d < c
    /\ members' = {c}
    /\ UNCHANGED <<sleep_duration, num_polls, num_tasks, slept, last_members,
                   session, scoped, ordered>>

\* The polling loop of the serial runcase: the job has finished, or the
\* controller is called with a count of one.
SerialPoll(finished) ==
    /\ policy = "serial"
    /\ members # {}
    /\ num_polls < MaxPolls
    /\ IF finished
       THEN /\ members' = {}
            /\ UNCHANGED <<sleep_duration, num_polls, num_tasks, slept, last_members>>
       ELSE /\ CommitCtl(snooze(running_tasks(Ctl, 1)))
            /\ last_members' = members
            /\ UNCHANGED members
    /\ UNCHANGED <<session, scoped, ordered>>

PollInit ==
    /\ policy \in {"async", "serial"}
    /\ deps = NoDeps
    /\ check = [c \in Cases |-> Remote("p1")]
    /\ max_failures = NoLimit
    /\ pc = "idle"
    /\ InitPolicy
    /\ NoScopedDict
    /\ NoController
    /\ NoOrderedSet

PollNext ==
    \/ \E M \in {N \in SUBSET PollTasks : Cardinality(N) <= MaxRunning} : DrainIteration(M)
    \/ \E c \in PollTasks : SerialRun(c)
    \/ \E finished \in BOOLEAN : SerialPoll(finished)

\* The controller of a policy beside the tasks that compile or run.
PollSpec == PollInit /\ [][PollNext]_vars

\* ------------------------------------------------------------ OrderedSet
\* An ordered set is the sequence of the keys of its OrderedDict, without
\* duplicates; a set it is combined with is the sequence its iteration yields.
Elements == 1..MaxElems

Elems(d) == {d[i] : i \in 1..Len(d)}

OrderedSets ==
    {d \in UNION {[1..n -> Elements] : n \in 0..MaxElems} :
        \A i, j \in 1..Len(d) : d[i] = d[j] => i = j}

\* OrderedSet.add: a new key goes to the end, a present one stays in place.
add(d, e) == IF e \in Elems(d) THEN d ELSE Append(d, e)

\* OrderedSet.discard (and remove, for a present element).
discard(d, e) == SelectSeq(d, LAMBDA v : v # e)

RECURSIVE add_each(_, _, _)
\* for x in src: ret.add(x), for the elements x of src that are in keep.
add_each(d, src, keep) ==
    IF src = <<>> THEN d
    ELSE add_each(IF Head(src) \in keep THEN add(d, Head(src)) ELSE d,
                  Tail(src), keep)

RECURSIVE discard_each(_, _)
\* for e in src: self.discard(e)
discard_each(d, src) ==
    IF src = <<>> THEN d ELSE discard_each(discard(d, Head(src)), Tail(src))

\* shortest(a, b): the first of the shortest.
shortest(a, b) == IF Len(b) < Len(a) THEN b ELSE a

\* itertools.chain(a, b)
chain(a, b) == a \o b

__and__(self, oth) == add_each(<<>>, shortest(self, oth), Elems(self) \cap Elems(oth))

__or__(self, oth) == add_each(<<>>, chain(self, oth), Elements)

__sub__(self, oth) == discard_each(self, oth)

__xor__(self, oth) ==
    add_each(<<>>, chain(self, oth), Elements \ (Elems(self) \cap Elems(oth)))

__ior__(self, oth) == add_each(self, oth, Elements)

__iand__(self, oth) ==
    LET discard_list == SelectSeq(self, LAMBDA e : e \notin Elems(oth)) IN
    discard_each(self, discard_list)

__isub__(self, oth) == discard_each(self, oth)

__ixor__(self, oth) ==
    LET discard_list == SelectSeq(self, LAMBDA e : e \in Elems(oth)) IN
    discard_each(self, discard_list)

Operators == {"^", "|", "&", "-"}

\* x <o> y
Binary(o, self, oth) ==
    CASE o = "^" -> __xor__(self, oth)
      [] o = "|" -> __or__(self, oth)
      [] o = "&" -> __and__(self, oth)
      [] o = "-" -> __sub__(self, oth)

\* x after x <o>= y
InPlace(o, self, oth) ==
    CASE o = "^" -> __ixor__(self, oth)
      [] o = "|" -> __ior__(self, oth)
      [] o = "&" -> __iand__(self, oth)
      [] o = "-" -> __isub__(self, oth)

\* Both forms of operator o are applied to x and y.
Apply(o) ==
    /\ operator = "none"
    /\ operator' = o
    /\ binary' = Binary(o, oset, other)
    /\ inplace' = InPlace(o, oset, other)
    /\ UNCHANGED <<oset, other, session, scoped, pollctl>>

OrderedInit ==
    /\ IdleSession
    /\ NoScopedDict
    /\ NoController
    /\ oset \in OrderedSets
    /\ other \in OrderedSets
    /\ operator = "none"
    /\ binary = <<>>
    /\ inplace = <<>>

OrderedNext == \E o \in Operators : Apply(o)

\* An operator applied to every pair of sets of up to MaxElems elements.
OrderedSpec == OrderedInit /\ [][OrderedNext]_vars

\* ------------------------------------------------------------ properties
Queues == Partitions \cup {"local"}

QueueOf(q) == IF q = "local" THEN local_scheduler_tasks ELSE scheduler_tasks[q]

Draining == policy = "async" /\ pc \in {"poll", "advance", "snooze"}

\* C1: between the advance steps of a drain every partition queue holds at
\* most max_jobs + 1 tasks and the local queue at most rfm_max_jobs + 1.
C1_QueuesWithinCapPlusOne ==
    \A q \in Queues : Cardinality(QueueOf(q)) <= queue_cap(q) + 1

\* A queue holds cap + 1 tasks and a ready task that wants it has just been
\* refused by this iteration's advance step.
C1_Witness ==
    /\ policy = "async" /\ pc = "advance"
    /\ \E t \in current_tasks \ todo :
          /\ stage[t] \in {"ready_to_compile", "ready_to_run"}
          /\ LET q == IF stage[t] = "ready_to_compile" THEN compile_queue(t)
                      ELSE run_queue(t)
             IN Cardinality(QueueOf(q)) = queue_cap(q) + 1

\* C2: at every moment every queue holds at most its capacity.
C2_QueuesWithinCap ==
    \A q \in Queues : Cardinality(QueueOf(q)) <= queue_cap(q)

\* C3: once the failure counter has reached max_failures the drain has
\* stopped with an abort of every task that was current.
C3_BudgetReachedAborts ==
    (policy = "async" /\ num_failed_tasks >= max_failures)
        => (pc = "aborted" /\ current_tasks \subseteq aborted)

NumEvents(t) == events[t].success + events[t].failure + events[t].skip

RECURSIVE SumOver(_, _)
SumOver(f, D) ==
    IF D = {} THEN 0
    ELSE LET x == CHOOSE y \in D : TRUE IN f[x] + SumOver(f, D \ {x})

TotalEvents == SumOver([t \in Cases |-> NumEvents(t)], Cases)

CleanupFailures ==
    SumOver([t \in Cases |-> IF stage[t] = "retired" THEN events[t].failure ELSE 0],
            Cases)

\* C4 as stated: when the drain returns normally the success, failure and
\* skip events add up to the number of submitted cases.
C4_OneEventPerCase ==
    (policy = "async" /\ pc = "returned") => TotalEvents = Cardinality(task_index)

\* C4 amended: when the drain returns normally every submitted case has
\* produced exactly one of the three events from its pipeline, and the only
\* further events are the on_task_failure of the successful tasks whose
\* cleanup failed: the total is the number of cases plus the failed cleanups.
C4_OneEventPerCasePlusCleanups ==
    (policy = "async" /\ pc = "returned") =>
        /\ \A t \in task_index :
              \/ stage[t] = "retired" /\ events[t].success = 1 /\ events[t].skip = 0
                 /\ events[t].failure = (IF failed_stage[t] = "cleanup" THEN 1 ELSE 0)
              \/ stage[t] = "failed" /\ events[t] = [NoEvents EXCEPT !.failure = 1]
              \/ stage[t] = "skipped" /\ events[t] = [NoEvents EXCEPT !.skip = 1]
        /\ TotalEvents = Cardinality(task_index) + CleanupFailures

\* The drain has returned normally after the cleanup of a successful task failed.
C4_Witness ==
    /\ policy = "async" /\ pc = "returned"
    /\ \E t \in task_index : stage[t] = "retired" /\ failed_stage[t] = "cleanup"
    /\ \E t \in task_index : stage[t] = "skipped"
    /\ \E t \in task_index : stage[t] = "failed"

OnQueue(t, q) ==
    \/ stage[t] = "compiling" /\ compile_queue(t) = q
    \/ stage[t] = "running" /\ run_queue(t) = q

\* C5: during a drain a task is a member of a queue exactly when its stage is
\* compiling or running on that queue.
C5_QueueMembership ==
    Draining => \A q \in Queues : \A t \in Cases : t \in QueueOf(q) <=> OnQueue(t, q)

AllTerminal == \A t \in Cases : stage[t] \in {"retired", "failed", "skipped"}

\* C6: unless the failure budget is reached, the drain eventually returns with
\* every submitted task in a terminal stage.
C6_DrainTerminates ==
    <>(\/ pc = "returned" /\ AllTerminal
       \/ num_failed_tasks >= max_failures)

NoFailureYet == \A t \in Cases : events[t].failure = 0 /\ events[t].skip = 0

\* C7: as long as no stage fails (or skips), every submitted case eventually
\* succeeds, also when more cases target a partition than it admits.
C7_AllSucceedWithoutFailures ==
    <>(\/ pc = "returned" /\ \A t \in Cases : stage[t] = "retired" /\ events[t].success = 1
       \/ ~NoFailureYet)

\* A ready task has just been refused by the full queue of its partition in a
\* drain without failures.
C7_Witness ==
    /\ policy = "async" /\ pc = "advance" /\ NoFailureYet
    /\ \E t \in current_tasks \ todo :
          /\ stage[t] = "ready_to_run"
          /\ Cardinality(QueueOf(run_queue(t))) = queue_cap(run_queue(t)) + 1

\* C8: in the asynchronous policy a waiting task with a failed and a skipped
\* indexed dependency leaves the waiting stage as failed, never as skipped.
C8_AsyncFailedOverridesSkipped ==
    [][\A t \in Cases :
          (/\ policy = "async" /\ stage[t] = "wait"
           /\ deps_failed(S, t) /\ deps_skipped(S, t)
           /\ stage'[t] # "wait") => stage'[t] = "failed"]_vars

\* C9: in the serial policy a case with a failed and a skipped indexed
\* dependency is failed with the dependency error: it is not skipped, its setup
\* is never called and its only event is one on_task_failure.
C9_SerialFailedOverridesSkipped ==
    policy = "serial" =>
        \A c \in task_index :
            (deps_failed(S, c) /\ deps_skipped(S, c)) =>
                /\ stage[c] = "failed"
                /\ failed_stage[c] = "dependencies"
                /\ c \notin started
                /\ events[c] = [NoEvents EXCEPT !.failure = 1]

\* A case of the serial policy was run with a failed and a skipped dependency.
C9_Witness ==
    /\ policy = "serial"
    /\ \E c \in task_index :
          deps_failed(S, c) /\ deps_skipped(S, c) /\ stage[c] = "failed"

Decrements(d) == SumOver([t \in Cases |-> decs[t][d]], Cases)

\* C10: a task emits at most one success; exactly one decrement is applied to
\* each indexed dependency of a task that succeeded and none for a task that
\* did not; the ref_count of a task is its number of dependents less the
\* decrements applied to it.
C10_OneDecrementPerSuccess ==
    /\ \A t \in Cases :
          /\ events[t].success <= 1
          /\ \A d \in Cases :
                decs[t][d] = IF events[t].success = 1 /\ d \in deps[t] /\ d \in task_index
                             THEN 1 ELSE 0
    /\ \A d \in task_index : ref_count[d] = NumDependents(d) - Decrements(d)

\* A dependency was decremented for a dependent that succeeded and has another
\* dependent that failed or was skipped.
C10_Witness ==
    \E d \in task_index :
        /\ \E t \in Cases : decs[t][d] = 1
        /\ \E u \in task_index : d \in deps[u] /\ stage[u] \in {"failed", "skipped"}
                                 /\ decs[u][d] = 0

InRetired(t) == \E i \in 1..Len(retired_tasks) : retired_tasks[i] = t

NextStages(t, stg) ==
    CASE stg = "none" -> {"wait"}
      [] stg = "wait" ->
            {IF check[t].kind = "run_only" THEN "ready_to_run" ELSE "ready_to_compile",
             "failed", "skipped"}
      [] stg = "ready_to_compile" -> {"compiling", "failed"}
      [] stg = "compiling" ->
            {IF check[t].kind = "compile_only" THEN "completed" ELSE "ready_to_run",
             "failed"}
      [] stg = "ready_to_run" -> {"running", "failed"}
      [] stg = "running" -> {"completed", "failed"}
      [] stg = "completed" -> {"retired", "failed"}
      [] OTHER -> {}

\* C12: the stage of a task only moves forward along wait, ready_to_compile,
\* compiling, ready_to_run, running, completed, retired (a run-only task skips
\* the build, a compile-only task the run; the serial policy runs the whole
\* pipeline in one step); a failed, skipped or retired task never changes
\* stage again and no pipeline stage is ever called on it.
C12_StagesOnlyForward ==
    [][/\ \A t \in Cases :
             \/ stage'[t] = stage[t]
             \/ policy = "async" /\ stage'[t] \in NextStages(t, stage[t])
             \/ policy = "serial" /\ stage[t] = "none" /\ stage'[t] \in TerminalStages
       /\ late_calls' = {}]_vars

\* A drain has returned with a failed task, a retired run-only task and a
\* retired compile-only task.
C12_Witness ==
    /\ policy = "async" /\ pc = "returned"
    /\ \E t \in task_index : stage[t] = "failed" /\ t \in started
    /\ \E t \in task_index : stage[t] = "retired" /\ check[t].kind = "run_only"
    /\ \E t \in task_index : stage[t] = "retired" /\ check[t].kind = "compile_only"

\* C13: a drain that returns normally leaves no current task and every
\* submitted task in a terminal stage, and a drain that does not return
\* normally ends with an abort-class error (never with another error).
C13_DrainReturnsOrAborts ==
    policy = "async" =>
        /\ pc = "returned" =>
              /\ current_tasks = {}
              /\ \A t \in task_index : stage[t] \in TerminalStages
        /\ pc # "crashed"

\* The dependencies of t that have a task when the step starts.
DepsInIndex(t) == deps[t] \cap task_index

\* C14: setup is called on a task only once every indexed dependency of it
\* has succeeded, and the on_task_success of a task is emitted only after the
\* on_task_success of each of its indexed dependencies.
C14_SetupAfterDependencies ==
    [][\A t \in Cases :
          /\ (t \in started' /\ t \notin started) =>
                \A d \in DepsInIndex(t) : stage[d] = "retired" /\ events[d].success = 1
          /\ events'[t].success > events[t].success =>
                \A d \in DepsInIndex(t) : events[d].success = 1]_vars

\* The linear chain 1 <- 2 <- 3 has run to completion in the drain.
C14_Witness ==
    /\ policy = "async" /\ pc = "returned"
    /\ deps[2] \cap Cases = {1} /\ deps[3] \cap Cases = {2}
    /\ \A t \in Cases : t \in started /\ events[t].success = 1

AllSucceeded ==
    /\ task_index = Cases
    /\ \A t \in Cases : stage[t] = "retired" /\ events[t].success = 1

\* C15: when every submitted case has succeeded, the retired list is empty
\* once the drain (asynchronous policy) or exit (serial policy) has returned,
\* and cleanup has been called exactly once on every task.
C15_AllSucceededAllCleaned ==
    (pc = "returned" /\ AllSucceeded) =>
        /\ retired_tasks = <<>>
        /\ \A t \in Cases : cleanups[t] = 1 /\ ref_count[t] = 0

\* A drain in which two cases depend on the first one has returned with
\* every case a success.
C15_Witness ==
    /\ policy = "async" /\ pc = "returned" /\ AllSucceeded
    /\ deps[2] \cap Cases = {1} /\ deps[3] \cap Cases = {1}

HasSkippedDep(t) == \E d \in DepsInIndex(t) : stage[d] = "skipped"

HasFailedDep(t) == \E d \in DepsInIndex(t) : stage[d] = "failed"

\* The step settles what becomes of case t: its runcase in the serial
\* policy, the advance step that takes it out of wait in the asynchronous one.
Decides(t) ==
    /\ stage'[t] # stage[t]
    /\ \/ policy = "serial" /\ stage[t] = "none"
       \/ policy = "async" /\ stage[t] = "wait"

\* C17: in both policies a task with a skipped indexed dependency and no
\* failed one becomes skipped (so skips propagate along chains): none of its
\* pipeline stages is called, its only event is one on_task_skip, it leaves
\* the current set and the failure counter is left as it was.
C17_SkipPropagates ==
    [][\A t \in Cases :
          (Decides(t) /\ HasSkippedDep(t) /\ ~HasFailedDep(t) /\ pc' # "aborted") =>
              /\ stage'[t] = "skipped"
              /\ t \notin started' /\ t \notin late_calls'
              /\ events'[t] = [NoEvents EXCEPT !.skip = 1]
              /\ num_failed_tasks' = num_failed_tasks
              /\ t \notin current_tasks']_vars

\* The setup of case 1 raised SkipTestError and the skip went down the chain
\* 1 <- 2 <- 3 without a failure being counted.
C17_Witness ==
    /\ deps[2] \cap Cases = {1} /\ deps[3] \cap Cases = {2}
    /\ 1 \in started /\ started = {1}
    /\ \A t \in Cases : stage[t] = "skipped" /\ events[t].skip = 1
    /\ num_failed_tasks = 0

\* C18: in both policies every task with a failed indexed dependency becomes
\* failed with the dependency error: its setup is not called, its only event
\* is one on_task_failure and it leaves the current set.
C18_DependencyFailurePropagates ==
    [][\A t \in Cases :
          (Decides(t) /\ HasFailedDep(t) /\ pc' # "aborted") =>
              /\ stage'[t] = "failed"
              /\ failed_stage'[t] = "dependencies"
              /\ t \notin started' /\ t \notin late_calls'
              /\ events'[t] = [NoEvents EXCEPT !.failure = 1]
              /\ t \notin current_tasks']_vars

\* The cleanup of task t fails in this step.
CleanupFails(t) ==
    cleanups'[t] > cleanups[t] /\ events'[t].failure > events[t].failure

\* C19: a failing cleanup reports on_task_failure with failed_stage =
\* "cleanup" and never aborts the drain, whatever the failure counter and
\* max_failures are.
C19_CleanupFailureNeverAborts ==
    [][\A t \in Cases :
          (policy = "async" /\ CleanupFails(t)) =>
              /\ failed_stage'[t] = "cleanup"
              /\ pc' # "aborted"]_vars

\* C20: a second sweep right after a sweep that ran to its end changes
\* nothing, whichever cleanups would fail: it calls no cleanup, emits no
\* event and leaves the retired list, the counters and the tasks as they are.
C20_SecondSweepIsNoOp ==
    \A F \in SUBSET Sweepable({}) :
        LET s1 == _cleanup_all(S, F) IN
        ~Raised(s1) => \A F2 \in SUBSET Sweepable({}) : _cleanup_all(s1, F2) = s1

\* The sweep of a drain iteration has just cleaned and removed one task (its
\* cleanup failed) and kept in the list a task that is still referenced.
C20_Witness ==
    /\ policy = "async" /\ pc = "snooze"
    /\ \E t \in task_index : InRetired(t) /\ ref_count[t] > 0
    /\ \E u \in task_index :
          stage[u] = "retired" /\ cleanups[u] = 1 /\ ~InRetired(u)
          /\ failed_stage[u] = "cleanup"

InSomeQueue(t) == \E q \in Queues : t \in QueueOf(q)

\* C21: a task enters a queue only in the admission step of its compile
\* (ready_to_compile to compiling) or of its run (ready_to_run to running), it
\* is in no queue when it does, and it enters at most once for its compile
\* and at most once for its run: once removed at the end of a stage it is
\* only added again by the admission of the next stage.
C21_QueuedOncePerStage ==
    [][\A t \in Cases : \A q \in Queues :
          (t \notin QueueOf(q) /\ t \in QueueOf(q)') =>
              /\ ~InSomeQueue(t)
              /\ \/ /\ stage[t] = "ready_to_compile" /\ stage'[t] = "compiling"
                     /\ "compile" \notin entered[t]
                 \/ /\ stage[t] = "ready_to_run" /\ stage'[t] = "running"
                     /\ "run" \notin entered[t]]_vars

\* A task that was removed from the local queue when its build finished has
\* been admitted to the queue of its partition for its run.
C21_Witness ==
    \E t \in current_tasks :
        /\ check[t].build_locally /\ ~check[t].local
        /\ stage[t] = "running" /\ entered[t] = {"compile", "run"}
        /\ t \in QueueOf(check[t].partition) /\ t \notin QueueOf("local")

\* Case t has dependencies and none of them has a task.
OnlyUnindexedDeps(t) == deps[t] # {} /\ DepsInIndex(t) = {}

\* C22: dependencies without a task count as succeeded.  A task all of whose
\* dependencies are unindexed is set up the first time it is advanced (in
\* its runcase in the serial policy), it is never failed with the dependency
\* error nor skipped without its setup having been called, and its success
\* changes the ref_count of no task.
C22_UnindexedDepsSucceeded ==
    [][\A t \in Cases : OnlyUnindexedDeps(t) =>
          /\ (/\ policy = "async" /\ pc' # "aborted"
               /\ stage[t] = "wait" /\ t \in todo /\ t \notin todo') =>
                  t \in started' /\ stage'[t] # "wait"
          /\ (policy = "serial" /\ stage[t] = "none" /\ stage'[t] # "none") =>
                  t \in started'
          /\ stage'[t] \in {"failed", "skipped"} =>
                  /\ failed_stage'[t] # "dependencies"
                  /\ t \in started' \/ t \in aborted'
          /\ events'[t].success > events[t].success =>
                  /\ \A d \in Cases \ {t} : ref_count'[d] = ref_count[d]
                  /\ decs'[t] = decs[t]]_vars

\* A task whose only dependency is the restored case has succeeded while a
\* task that depends on it was still waiting.
C22_Witness ==
    /\ policy = "async"
    /\ \E t, u \in task_index :
          /\ deps[t] = {Restored} /\ stage[t] = "retired" /\ events[t].success = 1
          /\ t \in deps[u] /\ stage[u] = "wait" /\ ref_count[t] = NumDependents(t)

\* C23: in the asynchronous policy the submission of case c only indexes
\* the case, creates its task in stage wait and adds it to the current set:
\* no pipeline stage is called, no event is emitted, and the queues, the
\* retired list, the failure counter and the stage and ref_count of every
\* other task are left as they are.
C23_SubmitOnlyRegisters ==
    [][\A c \in Cases :
          (policy = "async" /\ c \notin task_index /\ c \in task_index') =>
              /\ task_index' = task_index \cup {c}
              /\ current_tasks' = current_tasks \cup {c}
              /\ stage'[c] = "wait" /\ ref_count'[c] = NumDependents(c)
              /\ \A d \in Cases \ {c} :
                    stage'[d] = stage[d] /\ ref_count'[d] = ref_count[d]
              /\ UNCHANGED <<local_scheduler_tasks, scheduler_tasks, retired_tasks,
                             num_failed_tasks, started, late_calls, events, cleanups,
                             decs, aborted, failed_stage, job>>]_vars

\* The last case has been submitted after the others, one of which it
\* depends on, and the drain has not started.
C23_Witness ==
    /\ policy = "async" /\ pc = "idle"
    /\ task_index = Cases /\ current_tasks = Cases
    /\ deps[NumCases] \cap Cases # {}
    /\ \A c \in Cases : stage[c] = "wait" /\ ref_count[c] = NumDependents(c)

\* C24 (as stated): in the serial policy no stage of a case, cleanup
\* included, runs once a stage of a later-submitted case has run.  Cases are
\* submitted in increasing order.
C24_NoStageAfterLaterCase ==
    [][\A t \in Cases :
          (policy = "serial" /\ cleanups'[t] > cleanups[t]) =>
              \A d \in Cases : d > t => d \notin started']_vars

\* C24 (amended): in the serial policy, when runcase returns normally every
\* task is in a terminal outcome, and a runcase touches an earlier case only
\* to clean it up: its stage, its pipeline calls and its success events stay
\* as they were, a new failure event of it comes from its cleanup, and no
\* pipeline stage is ever called on a task that has its outcome.
C24_SerialRunsToCompletion ==
    [][policy = "serial" =>
          /\ pc' = "idle" => \A t \in task_index' : stage'[t] \in TerminalStages
          /\ late_calls' = {}
          /\ \A t \in task_index :
                /\ stage'[t] = stage[t]
                /\ (t \in started') = (t \in started)
                /\ events'[t].success = events[t].success
                /\ events'[t].skip = events[t].skip
                /\ events'[t].failure > events[t].failure =>
                      cleanups'[t] > cleanups[t] /\ failed_stage'[t] = "cleanup"]_vars

\* Every case has been run: one succeeded and was cleaned up in the runcase
\* of a later case that depends on it, another did not succeed.
C24_Witness ==
    /\ policy = "serial" /\ pc = "idle" /\ task_index = Cases
    /\ \E t, u \in Cases : /\ t \in deps[u]
                            /\ stage[t] = "retired" /\ stage[u] = "retired"
                            /\ cleanups[t] = 1 /\ ref_count[t] = 0
    /\ \E v \in Cases : stage[v] \in {"failed", "skipped"}

\* The scopes that enclose the key of a lookup, for the separator of the
\* dictionary: what precedes each of its separators.
EnclosingScopes(k) == {SubSeq(k, 1, i - 1) : i \in {j \in 1..Len(k) : k[j] = scope_sep}}

\* The name a lookup asks for: what follows the last separator.
NameOf(k) ==
    LET I == {i \in 1..Len(k) : k[i] = scope_sep} IN
    SubSeq(k, 1 + (IF I = {} THEN 0 ELSE CHOOSE j \in I : \A h \in I : h <= j), Len(k))

\* The value of the innermost enclosing scope that defines the name, then of
\* the global scope, else KeyError.
InnermostValue(k) ==
    LET Def == {s \in EnclosingScopes(k) \ {global_scope} :
                   s \in DOMAIN data /\ NameOf(k) \in DOMAIN data[s]}
    IN IF Def # {}
       THEN data[CHOOSE s \in Def : \A u \in Def : Len(u) <= Len(s)][NameOf(k)]
       ELSE IF global_scope \in DOMAIN data /\ NameOf(k) \in DOMAIN data[global_scope]
            THEN data[global_scope][NameOf(k)]
            ELSE "KeyError"

\* C25: a lookup returns the value of the innermost scope on the path from
\* the key's scope up to the global scope that defines the key, and raises
\* KeyError when none does, whatever the separator of the dictionary.
C25_LookupInnermostScope == ret # "none" => ret = InnermostValue(key)

\* The same for dictionaries with the default separator.
C25_DefaultSeparator == (ret # "none" /\ scope_sep = ":") => ret = InnermostValue(key)

\* C26: the advance step in which compile_complete or run_complete signals a
\* stage failure of a compiling or running task also removes the task from
\* the queue it had been admitted to.
C26_FailureFreesQueueSlot ==
    [][\A t \in Cases :
          (/\ policy = "async"
           /\ stage[t] \in {"compiling", "running"}
           /\ stage'[t] = "failed"
           /\ events'[t].failure > events[t].failure) =>
              \A q \in Queues : t \notin QueueOf(q)']_vars

\* The tasks a failure event is emitted for in a step.
NewFailureEvents == {t \in Cases : events'[t].failure > events[t].failure}

\* C27: the step in which an abort-class error is caught and the tasks are
\* aborted changes the failure counter by the failures signalled before the
\* error only: the counter grows by the failure events of the step, of which
\* at most one is for a task that is not retired (the failure that raised the
\* error; the others are cleanup failures), every current task has been
\* aborted, and an aborted task that had no outcome and got none in the step
\* is failed without a failure event.
C27_AbortKeepsFailureCounter ==
    [][(pc # "aborted" /\ pc' = "aborted") =>
          /\ num_failed_tasks' = num_failed_tasks + Cardinality(NewFailureEvents)
          /\ \A t \in Cases : events'[t].failure <= events[t].failure + 1
          /\ Cardinality({t \in NewFailureEvents : stage[t] # "retired"}) <= 1
          /\ policy = "async" => current_tasks \subseteq aborted'
          /\ \A t \in aborted' \ aborted :
                /\ stage'[t] \in TerminalStages
                /\ (stage[t] \notin TerminalStages /\ events'[t] = events[t]) =>
                      stage'[t] = "failed" /\ failed_stage'[t] = failed_stage[t]]_vars

\* A drain has been aborted when the failure budget was reached: a task was
\* failed by the abort without a failure event, and the counter stands at
\* the budget, which is the number of failure events.
C27_Witness ==
    /\ policy = "async" /\ pc = "aborted"
    /\ num_failed_tasks = max_failures
    /\ SumOver([t \in Cases |-> events[t].failure], Cases) = num_failed_tasks
    /\ \E t \in aborted : stage[t] = "failed" /\ events[t].failure = 0

\* C28: within a drain iteration the tasks are advanced in submission order
\* (the cases are submitted in increasing order), so of two tasks ready for
\* the same queue the one submitted first is admitted first.
C28_AdvanceInSubmissionOrder ==
    [][\A t \in Cases :
          (policy = "async" /\ pc = "advance" /\ t \in todo /\ t \notin todo') =>
              /\ \A d \in todo : d >= t
              /\ (t \notin QueueOf(check[t].partition) /\ t \in QueueOf(check[t].partition)') =>
                    \A d \in todo : (stage[d] = stage[t] /\ check[d] = check[t]) => d >= t]_vars

\* The jobs of the compiling and running tasks of queue q.
JobsOf(q) ==
    {<<t, "build_job">> : t \in {u \in QueueOf(q) : stage[u] = "compiling"}}
        \cup {<<t, "job">> : t \in {u \in QueueOf(q) : stage[u] = "running"}}

\* The schedulers that polled a job of task t in the last step.
PolledBy(t) ==
    {q \in Queues : \E i \in 1..Len(polls[q]) : \E p \in polls[q][i] : p[1] = t}

\* C29: at the head of a drain iteration the scheduler of every partition of
\* a submitted case and the local scheduler are polled once, each with the
\* build jobs of the compiling tasks and the run jobs of the running tasks of
\* its queue; the job of a compiling or running task is polled by one
\* scheduler and no job of a task in another stage is polled.
C29_PollLists ==
    polls["local"] # <<>> =>
        /\ \A q \in Queues :
              IF q = "local" \/ \E c \in task_index : check[c].partition = q
              THEN polls[q] = <<JobsOf(q)>>
              ELSE polls[q] = <<>> /\ QueueOf(q) = {}
        /\ \A t \in Cases :
              IF stage[t] \in {"compiling", "running"}
              THEN Cardinality(PolledBy(t)) = 1
              ELSE PolledBy(t) = {}

\* A poll in which a partition scheduler polled a run job, the local
\* scheduler a build job, and a failed task was still in a queue.
C29_Witness ==
    /\ \E p \in Partitions : \E t \in Cases : polls[p] = <<{<<t, "job">>}>>
    /\ \E t \in Cases : <<t, "build_job">> \in polls["local"][1]
    /\ \E t \in Cases : stage[t] = "failed" /\ InSomeQueue(t)

\* The queue the flags of a check ask for in stage stg.
ExpectedQueue(t, stg) ==
    CASE check[t].local -> "local"
      [] ~check[t].local /\ check[t].build_locally /\ stg = "compiling" -> "local"
      [] OTHER -> check[t].partition

\* C30: a compiling or running task is a member of the queue its flags ask
\* for and of no other: the local queue for both stages when local is set,
\* the local queue for compile and the partition queue for run when only
\* build_locally is set, the partition queue otherwise; a task enters that
\* queue only, and when it is removed it is removed from that queue and is
\* then in no queue.
C30_QueueChoice ==
    [][\A t \in Cases : \A q \in Queues :
          /\ (t \in QueueOf(q)' /\ stage'[t] \in {"compiling", "running"}) =>
                q = ExpectedQueue(t, stage'[t])
          /\ (t \notin QueueOf(q) /\ t \in QueueOf(q)') =>
                /\ stage'[t] \in {"compiling", "running"}
                /\ \A r \in Queues \ {q} : t \notin QueueOf(r)'
          /\ (t \in QueueOf(q) /\ t \notin QueueOf(q)') =>
                /\ stage[t] \in {"compiling", "running"}
                /\ q = ExpectedQueue(t, stage[t])
                /\ \A r \in Queues : t \notin QueueOf(r)']_vars

\* A check with build_locally only has compiled and run and has left both
\* queues, while a local check runs in the local queue.
C30_Witness ==
    /\ \E t \in Cases : /\ check[t].build_locally /\ ~check[t].local
                         /\ stage[t] = "completed" /\ entered[t] = {"compile", "run"}
                         /\ ~InSomeQueue(t)
    /\ \E u \in Cases : check[u].local /\ stage[u] = "running"
                         /\ u \in local_scheduler_tasks

\* C31: the controller sleeps for SLEEP_MIN at its first poll; afterwards
\* for SLEEP_MIN when the number of tasks differs from the previous one, and
\* else for the previous duration times 1.1, at most SLEEP_MAX; the
\* duration is always within [SLEEP_MIN, SLEEP_MAX].
C31_SleepInterval ==
    [][num_polls' = num_polls + 1 =>
          /\ slept' = IF num_polls = 0 THEN SLEEP_MIN
                      ELSE IF num_tasks' # num_tasks THEN SLEEP_MIN
                      ELSE IF (slept * 11) \div 10 <= SLEEP_MAX
                           THEN (slept * 11) \div 10
                           ELSE SLEEP_MAX
          /\ slept' >= SLEEP_MIN /\ slept' <= SLEEP_MAX
          /\ sleep_duration' = slept']_vars

\* The controller has slept for SLEEP_MAX: the cap has been applied.
C31_Witness == num_polls > 1 /\ slept = SLEEP_MAX /\ num_tasks > 0

\* C32: a poll of the controller before which the set of the compiling or
\* running tasks differs from the set at the previous poll sleeps for
\* SLEEP_MIN.
C32_MembershipChangeResets ==
    [][(num_polls' = num_polls + 1 /\ last_members' # last_members) =>
          slept' = SLEEP_MIN]_vars

\* The current tasks that compile or run now.
RunningNow == {t \in current_tasks : stage[t] \in {"compiling", "running"}}

\* C33: at the snooze step, after advance_all and the sweep, the count the
\* driver uses (it sleeps when the count is not zero and gives it to the poll
\* controller) is the number of current tasks that compile or run then.
C33_SnoozeCountsCurrent ==
    (policy = "async" /\ pc = "snooze") =>
        /\ num_running = Cardinality(RunningNow)
        /\ (num_running # 0) <=> (RunningNow # {})

\* C34: in the asynchronous policy a run-only test leaves wait for
\* ready_to_run and is never in ready_to_compile or compiling nor in a queue
\* for a build; a compile-only test leaves compiling for completed and is
\* never in ready_to_run or running nor in a queue for a run.
C34_RunOnlyCompileOnly ==
    [][\A t \in Cases : policy = "async" =>
          /\ check[t].kind = "run_only" =>
                /\ stage'[t] \notin {"ready_to_compile", "compiling"}
                /\ "compile" \notin entered'[t]
                /\ (stage[t] = "wait" /\ stage'[t] \notin {"wait", "failed", "skipped"}) =>
                      stage'[t] = "ready_to_run"
          /\ check[t].kind = "compile_only" =>
                /\ stage'[t] \notin {"ready_to_run", "running"}
                /\ "run" \notin entered'[t]
                /\ (stage[t] = "compiling" /\ stage'[t] \notin {"compiling", "failed"}) =>
                      stage'[t] = "completed"]_vars

\* A run-only test runs without having compiled while a compile-only test
\* is completed without having run.
C34_Witness ==
    /\ policy = "async"
    /\ \E t \in Cases : /\ check[t].kind = "run_only"
                         /\ stage[t] = "running" /\ entered[t] = {"run"}
    /\ \E u \in Cases : /\ check[u].kind = "compile_only"
                         /\ stage[u] = "completed" /\ entered[u] = {"compile"}

\* C35: at the start of every drain iteration each current task is in a
\* stage that has an advance function, a task that became failed, skipped or
\* retired having left the current set in the step in which it did.
C35_CurrentTasksAdvanceable ==
    (policy = "async" /\ pc = "poll") =>
        \A t \in current_tasks :
            stage[t] \in {"wait", "ready_to_compile", "compiling", "ready_to_run",
                          "running", "completed"}

\* C36: in the asynchronous policy a task is a member of at most one queue.
C36_AtMostOneQueue ==
    policy = "async" =>
        \A t \in Cases : Cardinality({q \in Queues : t \in QueueOf(q)}) <= 1

\* A check that is built locally sits in its partition queue for its run,
\* after its build sat in the local queue, which now holds another task.
C36_Witness ==
    \E t, u \in Cases :
        /\ t # u
        /\ check[t].build_locally /\ ~check[t].local
        /\ entered[t] = {"compile", "run"}
        /\ t \in scheduler_tasks[check[t].partition]
        /\ u \in local_scheduler_tasks

\* The dependents of a case among the cases of the session.
DependentsOf(t) == {d \in Cases : t \in deps[d]}

\* C37: in either policy the ref_count of an indexed task is never negative,
\* and it is zero exactly when every dependent of the task has succeeded.
C37_RefCountZeroIffAllSucceeded ==
    \A t \in task_index :
        /\ ref_count[t] >= 0
        /\ ref_count[t] = 0 <=> \A d \in DependentsOf(t) : events[d].success >= 1

\* A task with two dependents reached zero after both of them succeeded.
C37_Witness ==
    \E t \in task_index :
        /\ Cardinality(DependentsOf(t)) = 2
        /\ ref_count[t] = 0
        /\ \A d \in DependentsOf(t) : events[d].success = 1

\* C38: cleanup is called at most once on a task over a whole run, also when
\* a cleanup fails and when the failure limit is reached in the middle of a
\* sweep and the final pass of exit() follows.
C38_CleanupAtMostOnce == \A t \in Cases : cleanups[t] <= 1

\* A policy that has run no case yet.
FreshPolicy ==
    [S EXCEPT !.task_index = {}, !.current_tasks = {},
              !.stage = [c \in Cases |-> "none"],
              !.ref_count = [c \in Cases |-> 0],
              !.failed_stage = [c \in Cases |-> "none"],
              !.local_scheduler_tasks = {},
              !.scheduler_tasks = [p \in Partitions |-> {}],
              !.retired_tasks = <<>>, !.num_failed_tasks = 0,
              !.job = [c \in Cases |-> "none"],
              !.events = [c \in Cases |-> NoEvents],
              !.decs = [c \in Cases |-> [d \in Cases |-> 0]],
              !.cleanups = [c \in Cases |-> 0],
              !.aborted = {}, !.started = {}, !.late_calls = {},
              !.entered = [c \in Cases |-> {}]]

\* The stage outcomes that agree with what the pipelines of the session at
\* hand did: a case that was set up succeeded, failed a stage or was skipped
\* by its check; the outcome of a case that was never set up is free.
StageOutcomes ==
    {out \in [Cases -> {"ok", "skip", "fail"}] :
        \A c \in started :
            out[c] = CASE stage[c] = "retired" -> "ok"
                       [] stage[c] = "skipped" -> "skip"
                       [] OTHER -> "fail"}

\* The tasks whose cleanup failed in the session at hand.
FailedCleanups == {t \in Cases : failed_stage[t] = "cleanup"}

RECURSIVE SerialRunFrom(_, _, _)
\* The serial policy given the cases from c on, in their order, with stage
\* outcomes out, until an abort-class error ends the run; then its exit().
SerialRunFrom(s, c, out) ==
    IF Raised(s) THEN s
    ELSE IF c > NumCases THEN _cleanup_all(s, FailedCleanups)
    ELSE SerialRunFrom(serial_runcase(s, c, out[c], FailedCleanups), c + 1, out)

\* C39: a drain of the asynchronous policy that has returned leaves every
\* case in the terminal outcome, and the failure counter at the value, that
\* the serial policy gives for the same cases and the same stage outcomes.
C39_PoliciesAgree ==
    (policy = "async" /\ pc = "returned") =>
        \A out \in StageOutcomes :
            LET r == SerialRunFrom(FreshPolicy, 1, out) IN
            /\ \A c \in Cases : stage[c] = r.stage[c]
            /\ num_failed_tasks = r.num_failed_tasks

\* C40: after x <op>= y the elements of x are those of (old x) <op> y, for
\* each of the operators ^, |, & and -.
C40_InPlaceAsBinary ==
    operator # "none" => Elems(inplace) = Elems(binary)

\* ------------------------------------------------------- specifications
AsyncNext ==
    \/ \E c \in Cases : Runcase(c)
    \/ Exit
    \/ Poll
    \/ \E t \in Cases : AdvanceWait(t)
    \/ \E t \in Cases : AdvanceReadyToCompile(t)
    \/ \E t \in Cases : AdvanceCompiling(t)
    \/ \E t \in Cases : AdvanceReadyToRun(t)
    \/ \E t \in Cases : AdvanceRunning(t)
    \/ \E t \in Cases : AdvanceCompleted(t)
    \/ \E t \in Cases : AdvanceNoHandler(t)
    \/ Cleanup
    \/ Snooze

Next == AsyncNext \/ SerialNext

\* Sessions of either policy.
Spec == Init /\ [][Next]_vars

\* Sessions of either policy over checks of one partition, with every
\* dependency graph, in which every case also depends on a restored case.
DepInit ==
    /\ policy \in {"async", "serial"}
    /\ SerialInputs
    /\ Restored \in deps[1]
    /\ pc = "idle"
    /\ InitPolicy
    /\ NoScopedDict
    /\ NoController
    /\ NoOrderedSet

DepSpec == DepInit /\ [][Next]_vars

\* Drains of the asynchronous policy in which the driver keeps running and
\* every job that is polled again and again is eventually found finished.
LiveInit ==
    /\ policy = "async"
    /\ SerialInputs
    /\ Restored \notin deps[1]
    /\ pc = "idle"
    /\ InitPolicy
    /\ NoScopedDict
    /\ NoController
    /\ NoOrderedSet

\* A poll that finds the job of task t finished.
JobFinishes(t) == \E D \in SUBSET polled(S) : t \in D /\ PollFinding(D)

LiveSpec ==
    /\ LiveInit
    /\ [][AsyncNext]_vars
    /\ WF_vars(AsyncNext)
    /\ \A t \in Cases : SF_vars(JobFinishes(t))

====
